---------------------------- MODULE Spec2Model ----------------------------
(***************************************************************************)
(* BKK-Traffic-Tracker: the ingest -> publish -> consume -> persist        *)
(* pipeline.                                                               *)
(*                                                                         *)
(*   Poller      src/data_collection.py      main / fetch_data /           *)
(*                                           extract_vehicle_info /        *)
(*                                           send_to_kafka                 *)
(*   Subscriber  src/database/database_consumer.py                         *)
(*                                           consume_kafka_messages /      *)
(*                                           insert_vehicle_data           *)
(*   Store       src/database/db_queries.py  INSERT_VEHICLE_DATA           *)
(*               src/database/db_utils.py    get_connection                *)
(*                                                                         *)
(* The topic "vehicle-data" is modelled as one partition: a sequence of    *)
(* payloads.  The consumer's in-memory position advances with every        *)
(* message poll() returns; the committed position changes only in          *)
(* consumer.commit(), which (called without a message or offsets) commits  *)
(* the current position.                                                   *)
(***************************************************************************)
EXTENDS Integers, Sequences, FiniteSets, TLC

\* ------------------------------------------------------------ bounds
MaxCycles == 1
MaxFeedLen == 2
MaxForeign == 1
MaxListLen == 2
MaxDbFailures == 1
MaxRestarts == 1

\* ------------------------------------------------------- time formatting
\* datetime.fromtimestamp(epoch, tz=timezone.utc): the civil UTC date and
\* time of an epoch second count (proleptic Gregorian calendar).
UtcFromTimestamp(epoch) ==
    LET days == epoch \div 86400
        secs == epoch % 86400
        z    == days + 719468
        era  == z \div 146097
        doe  == z - era * 146097
        yoe  == (doe - doe \div 1460 + doe \div 36524 - doe \div 146096) \div 365
        doy  == doe - (365 * yoe + yoe \div 4 - yoe \div 100)
        mp   == (5 * doy + 2) \div 153
        d    == doy - (153 * mp + 2) \div 5 + 1
        m    == IF mp < 10 THEN mp + 3 ELSE mp - 9
        y    == yoe + era * 400 + (IF m <= 2 THEN 1 ELSE 0)
    IN  [year |-> y, month |-> m, day |-> d,
         hour |-> secs \div 3600, minute |-> (secs % 3600) \div 60,
         second |-> secs % 60]

Digits == <<"0", "1", "2", "3", "4", "5", "6", "7", "8", "9">>

IsDigit(c) == \E i \in 1..10 : Digits[i] = c

DigitVal(c) == (CHOOSE i \in 1..10 : Digits[i] = c) - 1

Pad2(n) == <<Digits[((n \div 10) % 10) + 1], Digits[(n % 10) + 1]>>

Pad4(n) == Pad2(n \div 100) \o Pad2(n % 100)

\* strftime("%Y-%m-%d %H:%M:%S"): a text of 19 characters.
Strftime(dt) ==
    Pad4(dt.year) \o <<"-">> \o Pad2(dt.month) \o <<"-">> \o Pad2(dt.day)
      \o <<" ">> \o Pad2(dt.hour) \o <<":">> \o Pad2(dt.minute)
      \o <<":">> \o Pad2(dt.second)

Num2(s, i) == DigitVal(s[i]) * 10 + DigitVal(s[i + 1])

\* datetime.strptime(text, "%Y-%m-%d %H:%M:%S"): the naive datetime the text
\* denotes, or a ValueError (ok = FALSE) when the text is not in the format.
Strptime(s) ==
    LET NoTime == [year |-> 0, month |-> 0, day |-> 0,
                   hour |-> 0, minute |-> 0, second |-> 0]
        shaped == /\ Len(s) = 19
                  /\ s[5] = "-" /\ s[8] = "-" /\ s[11] = " "
                  /\ s[14] = ":" /\ s[17] = ":"
                  /\ \A i \in (1..19) \ {5, 8, 11, 14, 17} : IsDigit(s[i])
    IN  IF ~shaped THEN [ok |-> FALSE, dt |-> NoTime]
        ELSE LET dt == [year   |-> Num2(s, 1) * 100 + Num2(s, 3),
                        month  |-> Num2(s, 6),
                        day    |-> Num2(s, 9),
                        hour   |-> Num2(s, 12),
                        minute |-> Num2(s, 15),
                        second |-> Num2(s, 18)]
                 inRange == /\ dt.month \in 1..12 /\ dt.day \in 1..31
                            /\ dt.hour \in 0..23 /\ dt.minute \in 0..59
                            /\ dt.second \in 0..61
             IN  [ok |-> inRange, dt |-> IF inRange THEN dt ELSE NoTime]

\* ------------------------------------------------------------- the feed
\* A filter on another route_id.
SentinelRoute_Other == "999"

\* The reserved route_id of extract_vehicle_info.
SentinelRoute == "9999"

\* Feed entities (FeedEntity of the GTFS-realtime envelope).  hasVehicle is
\* entity.HasField("vehicle"); the other fields are those of entity.vehicle.
\* Speeds are metres per second, timestamps epoch seconds.
EntityA ==
    [hasVehicle |-> TRUE, trip_id |-> "T1", route_id |-> "R1",
     latitude |-> "47.49", longitude |-> "19.04", bearing |-> "90.0",
     speed |-> 10, current_stop_sequence |-> 1, current_status |-> 2,
     timestamp |-> 1700000000, stop_id |-> "S1", vehicle_id |-> "V1",
     vehicle_label |-> "L1", license_plate |-> "P1",
     wheelchair_accessible |-> 2]

\* The same vehicle at the same second, every other field different.
EntityB ==
    [hasVehicle |-> TRUE, trip_id |-> "T2", route_id |-> "R2",
     latitude |-> "47.51", longitude |-> "19.06", bearing |-> "180.0",
     speed |-> 5, current_stop_sequence |-> 2, current_status |-> 1,
     timestamp |-> 1700000000, stop_id |-> "S2", vehicle_id |-> "V1",
     vehicle_label |-> "L2", license_plate |-> "P2",
     wheelchair_accessible |-> 1]

\* A vehicle on the reserved route.
EntityS ==
    [hasVehicle |-> TRUE, trip_id |-> "T9", route_id |-> "9999",
     latitude |-> "47.00", longitude |-> "19.00", bearing |-> "0.0",
     speed |-> 0, current_stop_sequence |-> 0, current_status |-> 0,
     timestamp |-> 1700000010, stop_id |-> "S9", vehicle_id |-> "V9",
     vehicle_label |-> "L9", license_plate |-> "P9",
     wheelchair_accessible |-> 0]

\* An entity without a vehicle-position sub-record (a trip update, an alert).
EntityN ==
    [hasVehicle |-> FALSE, trip_id |-> "", route_id |-> "",
     latitude |-> "0.0", longitude |-> "0.0", bearing |-> "0.0",
     speed |-> 0, current_stop_sequence |-> 0, current_status |-> 0,
     timestamp |-> 0, stop_id |-> "", vehicle_id |-> "",
     vehicle_label |-> "", license_plate |-> "",
     wheelchair_accessible |-> 0]

Entities == {EntityA, EntityB, EntityS, EntityN}

RECURSIVE SeqsUpTo(_, _)
SeqsUpTo(S, n) ==
    IF n = 0 THEN {<<>>}
    ELSE LET shorter == SeqsUpTo(S, n - 1)
         IN  shorter \cup {Append(q, x) : q \in shorter, x \in S}

\* What requests.get / raise_for_status / ParseFromString can give a cycle.
\*   "hang"       the endpoint never answers (requests.get has no timeout)
\*   "http_error" a RequestException: connection error or non-2xx status
\*   "malformed"  a body that ParseFromString rejects (DecodeError)
\*   "uninit"     a body that parses but is not IsInitialized()
\*   "ok"         a well-formed feed with the given entities
Responses ==
    {[kind |-> k, entities |-> <<>>] :
        k \in {"hang", "http_error", "malformed", "uninit"}}
      \cup {[kind |-> "ok", entities |-> f] : f \in SeqsUpTo(Entities, MaxFeedLen)}

\* vehicle.position.speed * 3.6 (feed speeds are whole multiples of 5 m/s,
\* so the product is a whole number of km/h).
KmhFromMps(v) == (v * 36) \div 10

\* extract_vehicle_info: the observation dict of one vehicle, or None for a
\* vehicle on the reserved route.
extract_vehicle_info(vehicle) ==
    IF vehicle.route_id = SentinelRoute
    THEN [none |-> TRUE, info |-> <<>>]
    ELSE [none |-> FALSE,
          info |->
            [trip_id |-> vehicle.trip_id,
             route_id |-> vehicle.route_id,
             latitude |-> vehicle.latitude,
             longitude |-> vehicle.longitude,
             bearing |-> vehicle.bearing,
             speed |-> KmhFromMps(vehicle.speed),
             current_stop_sequence |-> vehicle.current_stop_sequence,
             current_status |-> vehicle.current_status,
             timestamp |-> Strftime(UtcFromTimestamp(vehicle.timestamp)),
             stop_id |-> vehicle.stop_id,
             vehicle_id |-> vehicle.vehicle_id,
             vehicle_label |-> vehicle.vehicle_label,
             license_plate |-> vehicle.license_plate,
             wheelchair_accessible |-> vehicle.wheelchair_accessible]]

\* The loop without "if entity.HasField("vehicle")": every entity that is
\* not on the reserved route gives an observation.
DecodeEntities_NoFieldCheck(es) ==
    LET kept == SelectSeq(es, LAMBDA e : ~extract_vehicle_info(e).none)
    IN  [i \in 1..Len(kept) |-> extract_vehicle_info(kept[i]).info]

\* The loop of fetch_data over feed.entity.
RECURSIVE DecodeEntities(_)
DecodeEntities(es) ==
    IF es = <<>> THEN <<>>
    ELSE LET entity == Head(es)
             rest   == DecodeEntities(Tail(es))
         IN  IF ~entity.hasVehicle THEN rest
             ELSE LET vehicle_info == extract_vehicle_info(entity)
                  IN  IF vehicle_info.none THEN rest
                      ELSE <<vehicle_info.info>> \o rest

\* The observations the two ordinary vehicles decode to.
ObsA == extract_vehicle_info(EntityA).info

ObsB == extract_vehicle_info(EntityB).info

WireObservations == {ObsA, ObsB}

\* ------------------------------------------------------------- payloads
\* The keys of the dict extract_vehicle_info builds, in insertion order.
Fields ==
    <<"trip_id", "route_id", "latitude", "longitude", "bearing", "speed",
      "current_stop_sequence", "current_status", "timestamp", "stop_id",
      "vehicle_id", "vehicle_label", "license_plate", "wheelchair_accessible">>

\* json.dumps of one observation dict: a JSON object, its members in order.
JsonDumps(vehicle) ==
    [kind |-> "object",
     members |-> [i \in 1..Len(Fields) |-> <<Fields[i], vehicle[Fields[i]]>>],
     items |-> <<>>]

\* A JSON array of observation objects (written by another producer).
JsonDumpsList(vehicles) ==
    [kind |-> "array",
     members |-> <<>>,
     items |-> [i \in 1..Len(vehicles) |-> JsonDumps(vehicles[i]).members]]

\* Bytes that are not JSON.
NotJson == [kind |-> "garbage", members |-> <<>>, items |-> <<>>]

\* The dict a JSON object parses to: for a repeated key the last member wins.
ObjectOf(members) ==
    [k \in {members[i][1] : i \in DOMAIN members} |->
        members[CHOOSE i \in DOMAIN members :
                    /\ members[i][1] = k
                    /\ \A j \in DOMAIN members : j > i => members[j][1] # k][2]]

\* json.loads(msg.value().decode("utf-8")): a dict, a list, or JSONDecodeError.
json_loads(payload) ==
    CASE payload.kind = "object" ->
            [ok |-> TRUE, isDict |-> TRUE, dict |-> ObjectOf(payload.members),
             list |-> <<>>]
      [] payload.kind = "array" ->
            [ok |-> TRUE, isDict |-> FALSE, dict |-> <<>>,
             list |-> [i \in DOMAIN payload.items |-> ObjectOf(payload.items[i])]]
      [] OTHER ->
            [ok |-> FALSE, isDict |-> FALSE, dict |-> <<>>, list |-> <<>>]

\* if isinstance(vehicle_data, dict): vehicle_data = [vehicle_data]
NormalizeShape(loaded) == IF loaded.isDict THEN <<loaded.dict>> ELSE loaded.list

\* What a producer other than send_to_kafka may have written to the topic:
\* bytes that are not JSON, or a JSON list of observations.
ForeignPayloads ==
    {NotJson} \cup {JsonDumpsList(l) : l \in SeqsUpTo(WireObservations, MaxListLen)}

\* ------------------------------------------------------------ the table
\* The parameters with the boolean taken as the truth value of the code.
RowOf_WheelchairTruthy(vehicle) ==
    [trip_id |-> vehicle.trip_id,
     route_id |-> vehicle.route_id,
     latitude |-> vehicle.latitude,
     longitude |-> vehicle.longitude,
     bearing |-> vehicle.bearing,
     speed |-> vehicle.speed,
     current_stop_sequence |-> vehicle.current_stop_sequence,
     current_status |-> vehicle.current_status,
     timestamp |-> Strptime(vehicle.timestamp).dt,
     stop_id |-> vehicle.stop_id,
     vehicle_id |-> vehicle.vehicle_id,
     vehicle_label |-> vehicle.vehicle_label,
     license_plate |-> vehicle.license_plate,
     wheelchair_accessible |-> (vehicle.wheelchair_accessible # 0)]

\* The parameters insert_vehicle_data hands to cursor.execute, as a row of
\* vehicle_data: the timestamp parsed, the wheelchair code made a boolean.
RowOf(vehicle) ==
    [trip_id |-> vehicle.trip_id,
     route_id |-> vehicle.route_id,
     latitude |-> vehicle.latitude,
     longitude |-> vehicle.longitude,
     bearing |-> vehicle.bearing,
     speed |-> vehicle.speed,
     current_stop_sequence |-> vehicle.current_stop_sequence,
     current_status |-> vehicle.current_status,
     timestamp |-> Strptime(vehicle.timestamp).dt,
     stop_id |-> vehicle.stop_id,
     vehicle_id |-> vehicle.vehicle_id,
     vehicle_label |-> vehicle.vehicle_label,
     license_plate |-> vehicle.license_plate,
     wheelchair_accessible |-> (vehicle.wheelchair_accessible = 2)]

\* The UTC offsets (seconds east) of the TimeZone settings a database
\* session can have: UTC, Europe/Budapest in winter.  get_connection sets
\* none, so the session has the server's.
SessionUtcOffsets == {0, 3600}

\* The instant (epoch seconds) a TIMESTAMP WITH TIME ZONE column holds for a
\* parameter that is a naive datetime: psycopg2 sends it without a zone and
\* the server reads it as civil time in the session's TimeZone.
TimestamptzIn(dt, utcOffset) ==
    LET y    == IF dt.month <= 2 THEN dt.year - 1 ELSE dt.year
        era  == y \div 400
        yoe  == y - era * 400
        mp   == IF dt.month > 2 THEN dt.month - 3 ELSE dt.month + 9
        doy  == (153 * mp + 2) \div 5 + dt.day - 1
        doe  == yoe * 365 + yoe \div 4 - yoe \div 100 + doy
        days == era * 146097 + doe - 719468
    IN  days * 86400 + dt.hour * 3600 + dt.minute * 60 + dt.second - utcOffset

SameKey(r, row) == r.vehicle_id = row.vehicle_id /\ r.timestamp = row.timestamp

\* INSERT_VEHICLE_DATA with a latitude/longitude slip in its SET list.
Upsert_SwapLatLon(tbl, row) ==
    IF \E r \in tbl : SameKey(r, row)
    THEN {IF SameKey(r, row)
          THEN [r EXCEPT !.latitude = row.longitude,
                         !.longitude = row.latitude,
                         !.bearing = row.bearing,
                         !.speed = row.speed,
                         !.current_stop_sequence = row.current_stop_sequence,
                         !.current_status = row.current_status,
                         !.stop_id = row.stop_id,
                         !.vehicle_label = row.vehicle_label,
                         !.license_plate = row.license_plate,
                         !.wheelchair_accessible = row.wheelchair_accessible]
          ELSE r : r \in tbl}
    ELSE tbl \cup {row}

\* INSERT_VEHICLE_DATA: INSERT ... ON CONFLICT (vehicle_id, timestamp) DO
\* UPDATE SET the ten columns the statement lists (trip_id and route_id are
\* not in its SET list).
Upsert(tbl, row) ==
    IF \E r \in tbl : SameKey(r, row)
    THEN {IF SameKey(r, row)
          THEN [r EXCEPT !.latitude = row.latitude,
                         !.longitude = row.longitude,
                         !.bearing = row.bearing,
                         !.speed = row.speed,
                         !.current_stop_sequence = row.current_stop_sequence,
                         !.current_status = row.current_status,
                         !.stop_id = row.stop_id,
                         !.vehicle_label = row.vehicle_label,
                         !.license_plate = row.license_plate,
                         !.wheelchair_accessible = row.wheelchair_accessible]
          ELSE r : r \in tbl}
    ELSE tbl \cup {row}

\* ---------------------------------------------------------------- state
VARIABLES
    \* Poller (data_collection.py)
    pollerPc,          \* where main() is: "fetch", "send", "flush", "sleep",
                       \*   "blocked" (inside requests.get), "crashed",
                       \*   "exited" (ended by a shutdown signal)
    cycles,            \* cycles started so far
    fetchKind,         \* the kind of response the current cycle's fetch got
    fetched,           \* main's vehicle_data: the list fetch_data returned
    sendIdx,           \* send_to_kafka's place in that list
    inFlight,          \* messages produced and not yet acknowledged or failed
    \* the topic "vehicle-data"
    topic,             \* the payloads delivered, in log order
    foreign,           \* messages written by other producers so far
    \* Subscriber (database_consumer.py)
    subPc,             \* "poll", "deserialize", "connect", "cursor",
                       \*   "execute", "commit", "raised" (an exception
                       \*   left insert_vehicle_data), "stopped"
    position,          \* the consumer's position: messages poll() returned
    committed,         \* the group's committed position
    vehicle_data,      \* the list handed to insert_vehicle_data
    vidx,              \* insert_vehicle_data's place in that list
    openConns,         \* database connections opened and not closed
    restarts,          \* times the Subscriber process was started again
    lastPollError,     \* the latest consumer.poll returned a message
                       \*   carrying an error
    \* the database
    table,             \* the rows of vehicle_data
    dbFailures,        \* database operations that failed so far
    \* history
    persisted,         \* offsets whose insert_vehicle_data made every write
    insertFailed,      \* the latest insert_vehicle_data call failed
    failedOffset,      \* offset of the latest message whose insert failed
                       \*   and has not been persisted since (0: none)
    tableAtEntry,      \* the table when the latest call was entered
    attempts,          \* the observations produce() was called for, in
                       \*   order, in the current send_to_kafka call
    abandoned,         \* observations of the cycle in progress at shutdown
                       \*   that produce() was never called for
    feed,              \* the entities of the feed the current cycle fetched
    cycleDelivered     \* messages of the current send_to_kafka call that
                       \*   flush delivered to the topic

pollerVars == <<pollerPc, cycles, fetchKind, fetched, sendIdx, inFlight>>

topicVars == <<topic, foreign>>

subVars ==
    <<subPc, position, committed, vehicle_data, vidx, openConns, restarts,
      lastPollError>>

dbVars == <<table, dbFailures>>

histVars == <<persisted, insertFailed, failedOffset, tableAtEntry>>

pollerHist == <<attempts, abandoned, feed, cycleDelivered>>

vars == <<pollerVars, topicVars, subVars, dbVars, histVars, pollerHist>>

Init ==
    /\ pollerPc = "fetch"
    /\ cycles = 0
    /\ fetchKind = "none"
    /\ fetched = <<>>
    /\ sendIdx = 0
    /\ inFlight = <<>>
    /\ topic = <<>>
    /\ foreign = 0
    /\ subPc = "poll"
    /\ position = 0
    /\ committed = 0
    /\ vehicle_data = <<>>
    /\ vidx = 0
    /\ openConns = 0
    /\ restarts = 0
    /\ lastPollError = FALSE
    /\ table = {}
    /\ dbFailures = 0
    /\ persisted = {}
    /\ insertFailed = FALSE
    /\ failedOffset = 0
    /\ tableAtEntry = {}
    /\ attempts = <<>>
    /\ abandoned = 0
    /\ feed = <<>>
    /\ cycleDelivered = 0

\* --------------------------------------------------------------- Poller
\* One pass of main()'s loop up to the branch on vehicle_data: fetch_data()
\* on the response the endpoint gives, then "if vehicle_data:".
FetchData ==
    /\ pollerPc = "fetch"
    /\ cycles < MaxCycles
    /\ \E resp \in Responses :
        /\ fetchKind' = resp.kind
        /\ feed' = resp.entities
        /\ cycles' = cycles + 1
        /\ CASE resp.kind = "hang" ->
                    \* requests.get(url) without timeout never returns
                    /\ pollerPc' = "blocked"
                    /\ UNCHANGED <<fetched, sendIdx>>
             [] resp.kind = "http_error" ->
                    \* except RequestException: return []
                    /\ fetched' = <<>>
                    /\ pollerPc' = "sleep"
                    /\ UNCHANGED sendIdx
             [] resp.kind = "malformed" ->
                    \* DecodeError is no RequestException: it leaves fetch_data
                    \* and main(), which has no handler
                    /\ pollerPc' = "crashed"
                    /\ UNCHANGED <<fetched, sendIdx>>
             [] resp.kind = "uninit" ->
                    /\ fetched' = <<>>
                    /\ pollerPc' = "sleep"
                    /\ UNCHANGED sendIdx
             [] OTHER ->
                    LET decoded == DecodeEntities(resp.entities)
                    IN  /\ fetched' = decoded
                        /\ IF decoded # <<>>
                           THEN pollerPc' = "send" /\ sendIdx' = 1
                           ELSE pollerPc' = "sleep" /\ UNCHANGED sendIdx
    /\ UNCHANGED <<inFlight, attempts, abandoned, cycleDelivered>>
    /\ UNCHANGED <<topicVars, subVars, dbVars, histVars>>

\* send_to_kafka's loop: after vehicle sendIdx, the next one or the sleep.
AfterSend(i) == IF i < Len(fetched) THEN "send" ELSE "sleep"

\* send_to_kafka with its try inside no loop body: the exception of vehicle
\* i ends the for loop.
AfterProduceError_Abort(i) == "sleep"

\* "except Exception as e: print(...)" is inside the for loop's body: after
\* the error of vehicle i the loop goes on as after a send.
AfterProduceError(i) == AfterSend(i)

\* send_to_kafka without the flush inside the loop: a queued message stays
\* in flight while the loop goes on to the next vehicle.
Produce_NoFlush ==
    /\ pollerPc = "send"
    /\ attempts' = Append(attempts, fetched[sendIdx])
    /\ \E queued \in BOOLEAN :
        inFlight' = IF queued
                    THEN Append(inFlight, JsonDumps(fetched[sendIdx]))
                    ELSE inFlight
    /\ pollerPc' = AfterSend(sendIdx)
    /\ sendIdx' = sendIdx + 1
    /\ UNCHANGED <<cycles, fetchKind, fetched, abandoned, feed, cycleDelivered>>
    /\ UNCHANGED <<topicVars, subVars, dbVars, histVars>>

\* send_to_kafka producing the whole list as the value of one message.
Produce_Batch ==
    /\ pollerPc = "send"
    /\ attempts' = fetched
    /\ inFlight' = Append(inFlight, JsonDumpsList(fetched))
    /\ pollerPc' = "flush"
    /\ sendIdx' = Len(fetched)
    /\ UNCHANGED <<cycles, fetchKind, fetched, abandoned, feed, cycleDelivered>>
    /\ UNCHANGED <<topicVars, subVars, dbVars, histVars>>

\* producer.produce("vehicle-data", value=json.dumps(vehicle)): the message
\* is queued, or produce raises (queue full, ...) and the except logs it.
Produce ==
    /\ pollerPc = "send"
    /\ attempts' = Append(attempts, fetched[sendIdx])
    /\ \E queued \in BOOLEAN :
        IF queued
        THEN /\ inFlight' = Append(inFlight, JsonDumps(fetched[sendIdx]))
             /\ pollerPc' = "flush"
             /\ UNCHANGED sendIdx
        ELSE /\ pollerPc' = AfterProduceError(sendIdx)
             /\ sendIdx' = sendIdx + 1
             /\ UNCHANGED inFlight
    /\ UNCHANGED <<cycles, fetchKind, fetched, abandoned, feed, cycleDelivered>>
    /\ UNCHANGED <<topicVars, subVars, dbVars, histVars>>

\* A flush(timeout) that gives up: what it was waiting for stays queued.
FlushRemainder_Timeout(q) == q

\* What is still queued when producer.flush() returns: it is called without
\* a timeout, so nothing.
FlushRemainder(q) == <<>>

\* producer.flush(): returns when every queued message is delivered to the
\* topic or has failed delivery (no delivery callback is registered).
Flush ==
    /\ pollerPc = "flush"
    /\ \E delivered \in BOOLEAN :
        /\ topic' = IF delivered THEN topic \o inFlight ELSE topic
        /\ cycleDelivered' =
              IF delivered THEN cycleDelivered + Len(inFlight) ELSE cycleDelivered
    /\ inFlight' = FlushRemainder(inFlight)
    /\ pollerPc' = AfterSend(sendIdx)
    /\ sendIdx' = sendIdx + 1
    /\ UNCHANGED <<cycles, fetchKind, fetched, foreign, subVars, dbVars, histVars>>
    /\ UNCHANGED <<attempts, abandoned, feed>>

\* sleep(10), then the next pass of main()'s loop.  main's vehicle_data is
\* dead here (the next fetch_data() assigns it before any read): the model
\* clears it.
Sleep ==
    /\ pollerPc = "sleep"
    /\ pollerPc' = "fetch"
    /\ fetchKind' = "none"
    /\ fetched' = <<>>
    /\ sendIdx' = 0
    /\ attempts' = <<>>
    /\ feed' = <<>>
    /\ cycleDelivered' = 0
    /\ UNCHANGED <<cycles, inFlight, abandoned, topicVars, subVars, dbVars, histVars>>

\* A shutdown signal reaches the Poller process.  No handler is installed
\* and nothing catches KeyboardInterrupt ("except Exception" does not):
\* SIGINT unwinds main() from wherever it is, SIGTERM ends the process.
\* The vehicles send_to_kafka had not reached are never produced; a message
\* still queued in the producer is delivered or lost with the process.
Shutdown ==
    /\ pollerPc \in {"fetch", "blocked", "send", "flush", "sleep"}
    /\ pollerPc' = "exited"
    /\ abandoned' = Len(fetched) - Len(attempts)
    /\ \E delivered \in BOOLEAN :
        topic' = IF delivered THEN topic \o inFlight ELSE topic
    /\ inFlight' = <<>>
    /\ fetchKind' = "none"
    /\ fetched' = <<>>
    /\ sendIdx' = 0
    /\ attempts' = <<>>
    /\ feed' = <<>>
    /\ cycleDelivered' = 0
    /\ UNCHANGED <<cycles, foreign, subVars, dbVars, histVars>>

\* Another producer writes to the topic.
ForeignProduce ==
    /\ foreign < MaxForeign
    /\ \E p \in ForeignPayloads : topic' = Append(topic, p)
    /\ foreign' = foreign + 1
    /\ UNCHANGED <<pollerVars, subVars, dbVars, histVars, pollerHist>>

\* ----------------------------------------------------------- Subscriber
\* The except clauses of consume_kafka_messages with no handler: the
\* exception leaves the while loop and the function ends.
AfterException_Unhandled == "stopped"

\* Where consume_kafka_messages is after an exception raised inside its try
\* block: "except json.JSONDecodeError" and "except Exception" log it, and
\* the while loop goes on with the next poll.
AfterException == "poll"

\* consumer.poll(1.0) returns None: continue.
PollNone ==
    /\ subPc = "poll"
    /\ lastPollError' = FALSE
    /\ UNCHANGED <<subPc, position, committed, vehicle_data, vidx, openConns, restarts>>
    /\ UNCHANGED <<pollerVars, topicVars, dbVars, histVars, pollerHist>>

\* consume_kafka_messages without the "continue" of "if msg.error():": the
\* message carrying the error goes on to the commit.
PollError_NoContinue ==
    /\ subPc = "poll"
    /\ lastPollError' = TRUE
    /\ subPc' = "commit"
    /\ UNCHANGED <<position, committed, vehicle_data, vidx, openConns, restarts>>
    /\ UNCHANGED <<pollerVars, topicVars, dbVars, histVars, pollerHist>>

\* consumer.poll(1.0) returns a message carrying an error: log, continue.
PollError ==
    /\ subPc = "poll"
    /\ lastPollError' = TRUE
    /\ UNCHANGED <<subPc, position, committed, vehicle_data, vidx, openConns, restarts>>
    /\ UNCHANGED <<pollerVars, topicVars, dbVars, histVars, pollerHist>>

\* A consumer that pulls the next message from wherever the loop is (a
\* second thread polling while insert_vehicle_data runs).
PollMessage_WhileBusy ==
    /\ position < Len(topic)
    /\ position' = position + 1
    /\ subPc' = "deserialize"
    /\ lastPollError' = FALSE
    /\ UNCHANGED <<committed, vehicle_data, vidx, openConns, restarts>>
    /\ UNCHANGED <<pollerVars, topicVars, dbVars, histVars, pollerHist>>

\* consumer.poll(1.0) returns the next message of the log; the consumer's
\* position moves past it.
PollMessage ==
    /\ subPc = "poll"
    /\ position < Len(topic)
    /\ position' = position + 1
    /\ subPc' = "deserialize"
    /\ lastPollError' = FALSE
    /\ UNCHANGED <<committed, vehicle_data, vidx, openConns, restarts>>
    /\ UNCHANGED <<pollerVars, topicVars, dbVars, histVars, pollerHist>>

\* json.loads and the dict-to-list step; JSONDecodeError is logged and the
\* loop goes back to poll.  Otherwise insert_vehicle_data is entered.
Deserialize ==
    /\ subPc = "deserialize"
    /\ LET loaded == json_loads(topic[position])
       IN  IF ~loaded.ok
           THEN /\ subPc' = AfterException
                /\ UNCHANGED <<vehicle_data, histVars>>
           ELSE /\ vehicle_data' = NormalizeShape(loaded)
                /\ subPc' = "connect"
                /\ insertFailed' = FALSE
                /\ tableAtEntry' = table
                /\ UNCHANGED <<persisted, failedOffset>>
    /\ UNCHANGED <<position, committed, vidx, openConns, restarts>>
    /\ UNCHANGED <<pollerVars, topicVars, dbVars, pollerHist, lastPollError>>

\* connection = connect_server(): get_connection returns a connection, or
\* logs and returns None; "if connection:" then skips the body and
\* insert_vehicle_data returns normally.
Connect ==
    /\ subPc = "connect"
    /\ \/ /\ openConns' = openConns + 1
          /\ subPc' = "cursor"
          /\ UNCHANGED <<dbFailures, histVars>>
       \/ /\ dbFailures < MaxDbFailures
          /\ dbFailures' = dbFailures + 1
          /\ subPc' = "commit"
          /\ insertFailed' = TRUE
          /\ failedOffset' = position
          /\ UNCHANGED <<openConns, persisted, tableAtEntry>>
    /\ UNCHANGED <<position, committed, vehicle_data, vidx, restarts, table>>
    /\ UNCHANGED <<pollerVars, topicVars, pollerHist, lastPollError>>

\* cursor = connection.cursor().  When it raises, the except logs, and the
\* finally's cursor.close() raises UnboundLocalError (cursor was never
\* bound): connection.close() is not reached and the error leaves
\* insert_vehicle_data ("raised") with the connection open.
OpenCursor ==
    /\ subPc = "cursor"
    /\ \/ /\ subPc' = "execute"
          /\ vidx' = 1
          /\ UNCHANGED <<vehicle_data, dbFailures, histVars>>
       \/ /\ dbFailures < MaxDbFailures
          /\ dbFailures' = dbFailures + 1
          /\ subPc' = "raised"
          /\ vehicle_data' = <<>>
          /\ insertFailed' = TRUE
          /\ failedOffset' = position
          /\ UNCHANGED <<vidx, persisted, tableAtEntry>>
    /\ UNCHANGED <<position, committed, openConns, restarts, table>>
    /\ UNCHANGED <<pollerVars, topicVars, pollerHist, lastPollError>>

\* "except Exception as e" of consume_kafka_messages for an error that left
\* insert_vehicle_data: it is logged and the loop polls again.  Nothing
\* closes the connection; when e and its traceback are dropped the
\* connection object is unreachable, and whether its finalizer has run (and
\* closed the socket) by now depends on the interpreter's memory management.
HandleException ==
    /\ subPc = "raised"
    /\ subPc' = AfterException
    /\ \E finalized \in BOOLEAN :
        openConns' = IF finalized THEN openConns - 1 ELSE openConns
    /\ UNCHANGED <<position, committed, vehicle_data, vidx, restarts>>
    /\ UNCHANGED <<pollerVars, topicVars, dbVars, histVars, pollerHist, lastPollError>>

\* One pass of the for loop: the boolean and the timestamp are derived and
\* cursor.execute(INSERT_VEHICLE_DATA, ...) runs on the autocommit
\* connection.  When strptime or execute raises, the except logs, the
\* finally closes cursor and connection, and the call returns normally.
ExecuteWrite ==
    /\ subPc = "execute"
    /\ vidx <= Len(vehicle_data)
    /\ LET vehicle == vehicle_data[vidx]
       IN  \/ /\ Strptime(vehicle.timestamp).ok
              /\ table' = Upsert(table, RowOf(vehicle))
              /\ vidx' = vidx + 1
              /\ UNCHANGED <<subPc, openConns, dbFailures, histVars>>
           \/ /\ \/ ~Strptime(vehicle.timestamp).ok /\ UNCHANGED dbFailures
                 \/ /\ dbFailures < MaxDbFailures
                    /\ dbFailures' = dbFailures + 1
              /\ openConns' = openConns - 1
              /\ subPc' = "commit"
              /\ insertFailed' = TRUE
              /\ failedOffset' = position
              /\ UNCHANGED <<vidx, table, persisted, tableAtEntry>>
    /\ UNCHANGED <<position, committed, vehicle_data, restarts>>
    /\ UNCHANGED <<pollerVars, topicVars, pollerHist, lastPollError>>

\* The loop is over: "Data inserted/upgraded successfully", the finally
\* closes cursor and connection, the call returns.
InsertDone ==
    /\ subPc = "execute"
    /\ vidx > Len(vehicle_data)
    /\ openConns' = openConns - 1
    /\ subPc' = "commit"
    /\ persisted' = persisted \cup {position}
    /\ failedOffset' = IF failedOffset = position THEN 0 ELSE failedOffset
    /\ UNCHANGED <<insertFailed, tableAtEntry>>
    /\ UNCHANGED <<position, committed, vehicle_data, vidx, restarts>>
    /\ UNCHANGED <<pollerVars, topicVars, dbVars, pollerHist, lastPollError>>

\* consumer.commit(asynchronous=False): commits the consumer's current
\* position, or raises KafkaException, which the except logs.  The loop's
\* vehicle_data is dead from here to the next json.loads: the model clears
\* it.
Commit ==
    /\ subPc = "commit"
    /\ \E ok \in BOOLEAN :
        /\ committed' = IF ok THEN position ELSE committed
        /\ subPc' = IF ok THEN "poll" ELSE AfterException
    /\ vehicle_data' = <<>>
    /\ vidx' = 0
    /\ UNCHANGED <<position, openConns, restarts>>
    /\ UNCHANGED <<pollerVars, topicVars, dbVars, histVars, pollerHist, lastPollError>>

\* The Subscriber process ends and is run again: a new Consumer of group
\* "vehicle-data-group" starts at the committed position (at the earliest
\* offset when nothing is committed); the old process's connections are gone.
Restart ==
    /\ restarts < MaxRestarts
    /\ restarts' = restarts + 1
    /\ subPc' = "poll"
    /\ position' = committed
    /\ vehicle_data' = <<>>
    /\ vidx' = 0
    /\ openConns' = 0
    /\ lastPollError' = FALSE
    /\ UNCHANGED committed
    /\ UNCHANGED <<pollerVars, topicVars, dbVars, histVars, pollerHist>>

Next ==
    \/ FetchData
    \/ Produce
    \/ Flush
    \/ Sleep
    \/ Shutdown
    \/ ForeignProduce
    \/ PollNone
    \/ PollError
    \/ PollMessage
    \/ Deserialize
    \/ Connect
    \/ OpenCursor
    \/ HandleException
    \/ ExecuteWrite
    \/ InsertDone
    \/ Commit
    \/ Restart

Spec == Init /\ [][Next]_vars

\* ------------------------------------------------------------ properties
\* insert_vehicle_data's loop when every write succeeds: the table after
\* upserting the observations of one message in order.
RECURSIVE InsertAll(_, _)
InsertAll(t, rows) ==
    IF rows = <<>> THEN t
    ELSE InsertAll(Upsert(t, Head(rows)), Tail(rows))

\* The rows of the observations, and the row lists of the messages, that the
\* topic can carry.
WireRows == {RowOf(o) : o \in WireObservations}

WireRowLists == SeqsUpTo(WireRows, MaxListLen)

\* A row of another vehicle, the rows an upsert can leave in the table, and
\* the tables they can form under PRIMARY KEY (vehicle_id, timestamp).
OtherKeyRow == [RowOf(ObsA) EXCEPT !.vehicle_id = "V2"]

StoreRows ==
    WireRows \cup {OtherKeyRow}
      \cup UNION {Upsert({old}, row) : old \in WireRows, row \in WireRows}

StoreTables ==
    {t \in SUBSET StoreRows : \A r1, r2 \in t : SameKey(r1, r2) => r1 = r2}

\* Upserting twice is upserting once, on every such table.
IdempotentOnStoreTables ==
    \A t \in StoreTables : \A row \in WireRows \cup {OtherKeyRow} :
        Upsert(Upsert(t, row), row) = Upsert(t, row)

\* The observations message k of the topic carries (none when undecodable).
ObservationsOf(k) ==
    LET loaded == json_loads(topic[k])
    IN  IF loaded.ok THEN NormalizeShape(loaded) ELSE <<>>

InInsert == subPc \in {"connect", "cursor", "execute"}

\* C1 (commit ordering): the committed position is never past a message for
\* which no insert_vehicle_data call persisted every observation; a commit
\* follows only a fully successful persistence of the message.
C1_CommitOrdering == \A k \in 1..committed : k \in persisted

\* C2 (at-least-once, no loss): a message the committed position has passed
\* is never delivered again, so every observation of such a message has its
\* row in the table under (vehicle_id, timestamp), and each key has one row.
C2_NoLoss ==
    /\ \A k \in 1..committed :
          \A i \in DOMAIN ObservationsOf(k) :
             \E r \in table : SameKey(r, RowOf(ObservationsOf(k)[i]))
    /\ \A r1, r2 \in table : SameKey(r1, r2) => r1 = r2

\* C3 (retry on persistence failure): after insert_vehicle_data failed for
\* the message at an offset, no commit covers that offset and the Subscriber
\* does not persist a later message before that one is persisted again.
C3_RetrySameMessage ==
    failedOffset # 0 =>
        /\ committed < failedOffset
        /\ InInsert => position <= failedOffset

\* C4 (undecodable message): a message that is not valid JSON stays
\* uncommitted: no commit moves the committed position past it.
C4_UndecodableStaysUncommitted ==
    \A k \in 1..Len(topic) : ~json_loads(topic[k]).ok => committed < k

\* C5 (no partial commit): once a write of an insert_vehicle_data call has
\* failed, no further write of that call is attempted and the table equals
\* the table at the call's entry.
C5_NoPartialCommit ==
    insertFailed => (subPc # "execute" /\ table = tableAtEntry)

\* C6 (failure surfaced): a failed insert_vehicle_data call does not end the
\* way a successful one does: its caller is not at consumer.commit.
C6_FailureSurfaced == insertFailed => subPc # "commit"

\* C7 (full overwrite): after a successful upsert of observation o the table
\* holds o's row exactly, every non-key column included, whatever the row of
\* that key held before.
C7_FullOverwrite == \A row \in WireRows : row \in Upsert(table, row)

\* C8 (upsert idempotence): on every table the Subscriber can reach, and on
\* every table of StoreTables, upserting an observation twice gives the
\* table that upserting it once gives, and persisting a message again after
\* it was persisted changes nothing.
C8_UpsertIdempotent ==
    /\ IdempotentOnStoreTables
    /\ \A row \in WireRows :
          Upsert(Upsert(table, row), row) = Upsert(table, row)
    /\ \A rows \in WireRowLists :
          InsertAll(InsertAll(table, rows), rows) = InsertAll(table, rows)

\* C8 witness: after a restart a message that was already persisted has been
\* delivered again and all of its observations upserted a second time.
C8_Witness ==
    /\ restarts > 0
    /\ subPc = "execute"
    /\ position \in persisted
    /\ vehicle_data # <<>>
    /\ vidx > Len(vehicle_data)

\* C9 (decode error): a cycle whose payload ParseFromString rejects ends at
\* main()'s sleep with no observations and nothing produced.
C9_DecodeErrorContained ==
    fetchKind = "malformed" =>
        (pollerPc = "sleep" /\ fetched = <<>> /\ inFlight = <<>>)

\* C10 (fetch error): a cycle whose fetch gets no answer or a non-2xx status
\* ends at main()'s sleep with no observations and nothing produced.
C10_FetchErrorSkipsCycle ==
    fetchKind \in {"hang", "http_error"} =>
        (pollerPc = "sleep" /\ fetched = <<>> /\ inFlight = <<>>)

\* C11 (no error ends the Subscriber loop): a step of the Subscriber in
\* which deserialization fails puts it back at poll; a step in which a
\* database operation fails puts it at the commit that follows
\* insert_vehicle_data's normal return or, when an exception leaves
\* insert_vehicle_data, at the handler that puts it back at poll; the commit
\* step, failed or not, puts it back at poll; and the loop never ends.
C11_LoopSurvivesErrors ==
    [][ /\ (subPc = "deserialize" /\ subPc' # subPc
              /\ ~json_loads(topic[position]).ok) => subPc' = "poll"
        /\ (dbFailures' # dbFailures) => subPc' \in {"raised", "commit"}
        /\ (subPc = "raised" /\ subPc' # subPc) => subPc' = "poll"
        /\ (subPc = "commit" /\ subPc' # subPc) => subPc' = "poll"
        /\ subPc' # "stopped" ]_vars

\* C11 witness: the Subscriber is polling again after connection.cursor()
\* raised for the message it had just pulled.
C11_Witness ==
    /\ subPc = "poll"
    /\ insertFailed
    /\ failedOffset = position
    /\ openConns > 0

\* C12 (partial-failure semantics of send_to_kafka): whatever the outcome
\* of the earlier sends, produce() is called for the observations of the
\* batch one by one in list order: while the loop is at vehicle i the calls
\* made are those for the first i - 1 (i, once produce was called), and
\* when send_to_kafka has returned they are the whole batch, each once.
C12_BatchNotAborted ==
    /\ pollerPc = "send" => attempts = SubSeq(fetched, 1, sendIdx - 1)
    /\ pollerPc = "flush" => attempts = SubSeq(fetched, 1, sendIdx)
    /\ pollerPc = "sleep" => attempts = fetched

\* C12 witness: send_to_kafka has returned for a batch of two different
\* observations; the send of the first failed (it is not in the topic,
\* which no other producer wrote to) and the second was sent and delivered.
C12_Witness ==
    /\ pollerPc = "sleep"
    /\ Len(fetched) = 2
    /\ fetched[1] # fetched[2]
    /\ attempts = fetched
    /\ foreign = 0
    /\ topic = <<JsonDumps(fetched[2])>>

\* C13 (flush barrier): when send_to_kafka has returned (the Poller is at
\* its sleep, or at or inside the next fetch) no message is in flight.
C13_FlushBarrier ==
    pollerPc \in {"sleep", "fetch", "blocked", "crashed"} => inFlight = <<>>

\* C13 witness: send_to_kafka has returned after two messages were queued
\* and delivered.
C13_Witness ==
    /\ pollerPc = "sleep"
    /\ Len(attempts) = 2
    /\ foreign = 0
    /\ Len(topic) = 2
    /\ inFlight = <<>>

\* C14 (cooperative cancellation of the Poller): when the Poller has exited
\* on a shutdown signal, no observation of the cycle that was in progress
\* was left without its publish attempt.
C14_CycleCompletedBeforeExit == pollerPc = "exited" => abandoned = 0

\* C15 (connection scoping): whenever the Subscriber is not inside
\* insert_vehicle_data (it polls, deserializes, commits, or handles an
\* exception that left the call) no database connection is open.
C15_ConnectionScoped ==
    subPc \in {"poll", "deserialize", "commit", "raised"} => openConns = 0

\* The wheelchair_accessible codes of the feed (NO_VALUE, UNKNOWN,
\* WHEELCHAIR_ACCESSIBLE, WHEELCHAIR_INACCESSIBLE).
WheelchairCodes == 0..3

\* The row the Store Writer derives from the message the Poller publishes
\* for a feed entity: Decoder, json.dumps, json.loads, normalization, RowOf.
EndToEndRow(entity) ==
    RowOf(NormalizeShape(json_loads(JsonDumps(extract_vehicle_info(entity).info)))[1])

\* The observations a payload carries (none when it is not JSON).
CarriedBy(payload) ==
    LET loaded == json_loads(payload)
    IN  IF loaded.ok THEN NormalizeShape(loaded) ELSE <<>>

\* No observation carried by the payloads of a queue is on route "9999".
NoSentinelIn(payloads) ==
    \A i \in DOMAIN payloads :
        LET carried == CarriedBy(payloads[i])
        IN  \A j \in DOMAIN carried : carried[j].route_id # "9999"

\* A feed of one vehicle on route "9999" decodes to the empty list.
SentinelOnlyFeedIsEmpty == DecodeEntities(<<EntityS>>) = <<>>

\* For every code the Decoder passes the code on unchanged, and the row
\* derived from the published message has true exactly for code 2.
WheelchairMappingOnCodes ==
    \A code \in WheelchairCodes :
        LET e == [EntityA EXCEPT !.wheelchair_accessible = code]
        IN  /\ extract_vehicle_info(e).info.wheelchair_accessible = code
            /\ EndToEndRow(e).wheelchair_accessible = (code = 2)

\* C16 (discard rule): no observation with route_id "9999" is in
\* fetch_data's output, in a message in flight or in the topic, or in the
\* table; and a well-formed feed whose entities are all on route "9999"
\* gives the empty list.
C16_SentinelDiscarded ==
    /\ \A i \in DOMAIN fetched : fetched[i].route_id # "9999"
    /\ NoSentinelIn(inFlight)
    /\ NoSentinelIn(topic)
    /\ \A r \in table : r.route_id # "9999"
    /\ (fetchKind = "ok" /\ \A i \in DOMAIN feed : feed[i].route_id = "9999")
          => fetched = <<>>
    /\ SentinelOnlyFeedIsEmpty

\* C16 witness: the feed of the cycle was a vehicle on route "9999" followed
\* by an ordinary vehicle; only the second was decoded, and it was
\* published.
C16_Witness ==
    /\ fetchKind = "ok"
    /\ Len(feed) = 2
    /\ feed[1].hasVehicle /\ feed[1].route_id = "9999"
    /\ Len(fetched) = 1
    /\ pollerPc = "sleep"
    /\ foreign = 0
    /\ topic = <<JsonDumps(fetched[1])>>

\* C17 (wheelchair mapping, end to end): every stored row has
\* wheelchair_accessible true exactly when the feed entity it comes from
\* (the one with its vehicle_label) has code 2; for every code the Decoder
\* passes the code on unchanged and the row derived from the published
\* message has true exactly for code 2.
C17_WheelchairMapping ==
    /\ \A r \in table :
        \E e \in {EntityA, EntityB} :
            /\ e.vehicle_label = r.vehicle_label
            /\ r.wheelchair_accessible = (e.wheelchair_accessible = 2)
    /\ WheelchairMappingOnCodes

\* C17 witness: the table holds the row of the vehicle whose code is 1
\* (unknown), stored as false.
C17_Witness ==
    \E r \in table :
        /\ r.vehicle_label = EntityB.vehicle_label
        /\ EntityB.wheelchair_accessible = 1
        /\ ~r.wheelchair_accessible

\* C18 (timestamp round trip in UTC): whatever the session's TimeZone, the
\* instant every stored row holds in its timestamp column is the epoch
\* second of the feed entity the row comes from.
C18_StoredInstantIsFeedInstant ==
    \A utcOffset \in SessionUtcOffsets :
        \A r \in table :
            \E e \in {EntityA, EntityB} :
                /\ e.vehicle_label = r.vehicle_label
                /\ TimestamptzIn(r.timestamp, utcOffset) = e.timestamp

\* C19 (error or empty poll): the step in which a poll returns a message
\* carrying an error starts and ends at poll and changes neither the table,
\* nor the committed position, nor the consumer's position, nor what is
\* persisted; and every step taken at poll that neither pulls a message nor
\* restarts the process (an empty poll among them) leaves the Subscriber at
\* poll with the table and the committed position unchanged.
C19_PollErrorChangesNothing ==
    [][ /\ (lastPollError' /\ ~lastPollError)
            => /\ subPc = "poll" /\ subPc' = "poll"
               /\ UNCHANGED <<table, committed, position, vehicle_data, persisted>>
        /\ (subPc = "poll" /\ position' = position /\ restarts' = restarts)
            => /\ subPc' = "poll"
               /\ UNCHANGED <<table, committed>> ]_vars

\* C19 witness: the latest poll returned an error while a message was
\* waiting in the topic beyond the committed position; the Subscriber is
\* polling, with that message neither pulled nor committed.
C19_Witness ==
    /\ lastPollError
    /\ subPc = "poll"
    /\ committed < Len(topic)
    /\ position < Len(topic)

\* C20 (payload shape normalization): insert_vehicle_data is handed the
\* list of the observations the pulled message carries (a single object as
\* a list of one), and when the Subscriber is about to commit the message
\* every observation of that list has been upserted.
C20_AllUpsertedBeforeCommit ==
    /\ subPc \in {"connect", "cursor", "execute", "commit"}
          => vehicle_data = CarriedBy(topic[position])
    /\ subPc = "commit" => \A j \in DOMAIN vehicle_data : j < vidx

\* json.loads of json.dumps of an observation is a dict equal to it.
RoundTripOnWire ==
    \A o \in WireObservations :
        LET loaded == json_loads(JsonDumps(o))
        IN  loaded.ok /\ loaded.isDict /\ loaded.dict = o

\* C21 (one message per observation, unmodified in transit): a message in
\* flight is a JSON object carrying exactly the observation produce() was
\* last called for, which is the one the loop is at; json.loads gives back
\* the observation json.dumps was given; the messages a cycle adds to the
\* topic never outnumber its produce() calls, one per observation when
\* send_to_kafka has returned; what the Subscriber hands on from a Poller message is one
\* decoded observation; and a cycle that decoded nothing calls produce()
\* for nothing and queues nothing.
C21_OneMessagePerObservation ==
    /\ \A i \in DOMAIN inFlight :
        /\ inFlight[i].kind = "object"
        /\ CarriedBy(inFlight[i]) = <<attempts[Len(attempts)]>>
    /\ pollerPc = "flush" => attempts[Len(attempts)] = fetched[sendIdx]
    /\ RoundTripOnWire
    /\ pollerPc \in {"send", "flush", "sleep"}
          => cycleDelivered + Len(inFlight) <= Len(attempts)
    /\ (fetchKind = "ok" /\ pollerPc = "sleep") => Len(attempts) = Len(fetched)
    /\ (foreign = 0 /\ subPc \in {"connect", "cursor", "execute", "commit"})
          => \E o \in WireObservations : vehicle_data = <<o>>
    /\ (fetchKind = "ok" /\ fetched = <<>>)
          => (pollerPc = "sleep" /\ attempts = <<>> /\ inFlight = <<>>)

\* C21 witness: a batch of two different observations was sent as two
\* messages, and the Subscriber has deserialized the second message to the
\* second observation.
C21_Witness ==
    /\ foreign = 0
    /\ pollerPc = "sleep"
    /\ Len(fetched) = 2
    /\ fetched[1] # fetched[2]
    /\ topic = <<JsonDumps(fetched[1]), JsonDumps(fetched[2])>>
    /\ subPc = "connect"
    /\ position = 2
    /\ vehicle_data = <<fetched[2]>>

\* The entities of a feed that carry a vehicle-position sub-record and are
\* not on the reserved route, in feed order.
KeptEntities(es) ==
    SelectSeq(es, LAMBDA e : e.hasVehicle /\ e.route_id # "9999")

\* A feed of one entity without a vehicle-position sub-record decodes to
\* the empty list.
NoVehicleContributesNothing == DecodeEntities(<<EntityN>>) = <<>>

\* C22 (Decoder completeness): after a well-formed, initialized feed was
\* fetched, fetch_data has returned (no error left it) and its list has
\* exactly one observation for each entity that carries a vehicle-position
\* sub-record and is not on route "9999", in feed order (the observation
\* has that entity's label, vehicle, trip and route); an entity without the
\* sub-record gives nothing.
C22_DecoderComplete ==
    /\ fetchKind = "ok" =>
        LET kept == KeptEntities(feed)
        IN  /\ pollerPc \in {"send", "flush", "sleep"}
            /\ Len(fetched) = Len(kept)
            /\ \A i \in DOMAIN fetched :
                /\ fetched[i].vehicle_label = kept[i].vehicle_label
                /\ fetched[i].vehicle_id = kept[i].vehicle_id
                /\ fetched[i].trip_id = kept[i].trip_id
                /\ fetched[i].route_id = kept[i].route_id
    /\ NoVehicleContributesNothing

\* C22 witness: the feed was an entity without a vehicle-position
\* sub-record followed by an ordinary vehicle; fetch_data returned the
\* observation of the second alone and send_to_kafka is at it.
C22_Witness ==
    /\ fetchKind = "ok"
    /\ feed = <<EntityN, EntityB>>
    /\ fetched = <<ObsB>>
    /\ pollerPc = "send"

\* C23 (sequential persistence in log order): within one run of the
\* Subscriber process the next message is pulled only at poll, when the
\* persistence and the commit attempt of the one before are over, and it is
\* the next of the log; insert_vehicle_data is entered only from the
\* deserialization of the message pulled last, with that message's
\* observations; every write to the table is the upsert of an observation
\* of that message; and the only position ever committed is that message's.
C23_SequentialInLogOrder ==
    [][ /\ (position' # position /\ restarts' = restarts)
            => /\ subPc = "poll" /\ subPc' = "deserialize"
               /\ position' = position + 1
        /\ (subPc' = "connect" /\ subPc # "connect")
            => /\ subPc = "deserialize"
               /\ position' = position
               /\ vehicle_data' = CarriedBy(topic[position])
        /\ (table' # table)
            => /\ subPc = "execute"
               /\ position' = position
               /\ vehicle_data = CarriedBy(topic[position])
               /\ table' = Upsert(table, RowOf(vehicle_data[vidx]))
        /\ (committed' # committed)
            => (subPc = "commit" /\ committed' = position) ]_vars

\* C23 witness: in a run without restart the first message was persisted
\* and committed, and the Subscriber is now writing the observations of
\* the second.
C23_Witness ==
    /\ restarts = 0
    /\ subPc = "execute"
    /\ position = 2
    /\ committed = 1
    /\ 1 \in persisted
    /\ vidx = 1

\* a is b with some elements left out (a subsequence of b).
RECURSIVE IsSubSeqOf(_, _)
IsSubSeqOf(a, b) ==
    IF a = <<>> THEN TRUE
    ELSE IF b = <<>> THEN FALSE
    ELSE IF Head(a) = Head(b) THEN IsSubSeqOf(Tail(a), Tail(b))
    ELSE IsSubSeqOf(a, Tail(b))

\* json.dumps of each observation of a list.
PayloadsOf(vehicles) == [i \in DOMAIN vehicles |-> JsonDumps(vehicles[i])]

\* The messages the current send_to_kafka call added to the topic, when no
\* other producer wrote to it: the latest cycleDelivered ones.
TopicOfCycle == SubSeq(topic, Len(topic) - cycleDelivered + 1, Len(topic))

\* C24 (at most one message in flight): the producer never holds more than
\* one undelivered message; it holds none when send_to_kafka is about to
\* produce the next observation, and during a flush exactly the message of
\* the observation the loop is at; and, no other producer having written,
\* what the cycle has added to the topic are messages of the observations
\* attempted before that one (of all attempted, between sends and after
\* the last), in list order.
C24_OneInFlightInOrder ==
    /\ Len(inFlight) <= 1
    /\ pollerPc = "send" => inFlight = <<>>
    /\ pollerPc = "flush" =>
        /\ inFlight = <<JsonDumps(fetched[sendIdx])>>
        /\ foreign = 0
             => IsSubSeqOf(TopicOfCycle,
                           PayloadsOf(SubSeq(fetched, 1, sendIdx - 1)))
    /\ (foreign = 0 /\ pollerPc \in {"send", "sleep"})
          => IsSubSeqOf(TopicOfCycle, PayloadsOf(attempts))

\* C24 witness: the message of the first of two different observations is
\* in the topic and the message of the second is the one in flight.
C24_Witness ==
    /\ foreign = 0
    /\ pollerPc = "flush"
    /\ sendIdx = 2
    /\ fetched[1] # fetched[2]
    /\ topic = <<JsonDumps(fetched[1])>>
    /\ inFlight = <<JsonDumps(fetched[2])>>

====
